---- MODULE Spec2Model ----
(***************************************************************************)
(* F-Zero GX checkpoint diagrams: the interactive diagram (src/diagram.py, *)
(* class Diagram) and the widget that drives it (src/main.py, class        *)
(* MainWidget), as a state machine.                                        *)
(*                                                                         *)
(* Python floats are modelled as exact rationals <<numerator, denominator>>*)
(* in lowest terms with a positive denominator.  The checkpoint data used  *)
(* has axis-aligned lateral vectors, so that every square root the code    *)
(* takes is an exact rational.                                             *)
(***************************************************************************)
EXTENDS Integers, Sequences, FiniteSets, TLC

(***************************************************************************)
(* Exact rational arithmetic (the model of Python float arithmetic).       *)
(***************************************************************************)
Abs(n) == IF n < 0 THEN -n ELSE n

RECURSIVE GCD(_, _)
GCD(a, b) == IF b = 0 THEN a ELSE GCD(b, a % b)

Q(n, d) ==
    LET s == IF d < 0 THEN -1 ELSE 1
        g == GCD(Abs(n), Abs(d))
    IN  <<(s * n) \div g, (s * d) \div g>>

I(n) == <<n, 1>>

QAdd(a, b) == Q(a[1] * b[2] + b[1] * a[2], a[2] * b[2])
QSub(a, b) == Q(a[1] * b[2] - b[1] * a[2], a[2] * b[2])
QMul(a, b) == Q(a[1] * b[1], a[2] * b[2])
QDiv(a, b) == Q(a[1] * b[2], a[2] * b[1])
QNeg(a) == <<-a[1], a[2]>>
QLt(a, b) == a[1] * b[2] < b[1] * a[2]
QLe(a, b) == a[1] * b[2] <= b[1] * a[2]
QMin(a, b) == IF QLe(a, b) THEN a ELSE b
QMax(a, b) == IF QLe(a, b) THEN b ELSE a
QIsZero(a) == a[1] = 0

\* int(q) for q >= 0, as FigureCanvas.get_width_height truncates.
QInt(a) == a[1] \div a[2]

\* math.sqrt on a rational that is a perfect square (all the model's data).
ISqrt(n) == CHOOSE k \in 0..n : k * k = n
QSqrt(a) == <<ISqrt(a[1]), ISqrt(a[2])>>

(***************************************************************************)
(* Values that stand for Python's None (NoneStr where the other values are *)
(* strings), an attribute that was never assigned, and the float           *)
(* infinities of draw_checkpoints.  A list that may be None is            *)
(* <<"list", elements>>.                                                   *)
(***************************************************************************)
None == <<"None">>
NoneStr == "None"
Unset == <<"unset">>
Inf == <<1, 0>>
NegInf == <<-1, 0>>
IsFinite(a) == a[2] # 0

(***************************************************************************)
(* The data files: the rows of data/<course>.csv as csv.reader yields them *)
(* (an empty cell is the empty string "", which Python treats as false).   *)
(***************************************************************************)
Courses == {"A"}

CourseFile(course) ==
    IF course = "A"
    THEN << [checkpoint |-> 0, center_x |-> 0, center_y |-> 0, center_z |-> 0,
             right_x |-> 1, right_y |-> 0, right_z |-> 0,
             track_width |-> <<"num", 60>>, true_width |-> <<"num", 100>>],
            [checkpoint |-> 1, center_x |-> 0, center_y |-> 0, center_z |-> -200,
             right_x |-> 0, right_y |-> 0, right_z |-> 1,
             track_width |-> <<"num", 100>>, true_width |-> <<"">>] >>
    ELSE IF course = "C"
    THEN << [checkpoint |-> 0, center_x |-> 0, center_y |-> 0, center_z |-> 0,
             right_x |-> 1, right_y |-> 0, right_z |-> 0,
             track_width |-> <<"num", 60>>, true_width |-> <<"">>] >>
    ELSE IF course = "D"
    THEN << [checkpoint |-> 0, center_x |-> 500, center_y |-> 0, center_z |-> -100,
             right_x |-> 0, right_y |-> 1, right_z |-> 0,
             track_width |-> <<"num", 60>>, true_width |-> <<"">>] >>
    ELSE << [checkpoint |-> 0, center_x |-> 1000, center_y |-> 0, center_z |-> 0,
             right_x |-> 0, right_y |-> 0, right_z |-> 1,
             track_width |-> <<"">>, true_width |-> <<"">>] >>

default_track_width == 90

\* read_checkpoints, the conversion of one row: true_width when it is given,
\* else track_width, else the default of 90.0.
ConvertRow(row) ==
    [checkpoint |-> row.checkpoint,
     center_x |-> I(row.center_x), center_y |-> I(row.center_y),
     center_z |-> I(row.center_z),
     right_x |-> I(row.right_x), right_y |-> I(row.right_y),
     right_z |-> I(row.right_z),
     track_width |->
        IF row.true_width # <<"">> THEN I(row.true_width[2])
        ELSE IF row.track_width # <<"">> THEN I(row.track_width[2])
        ELSE I(default_track_width)]

LoadedCheckpoints(course) ==
    [i \in 1..Len(CourseFile(course)) |-> ConvertRow(CourseFile(course)[i])]

(***************************************************************************)
(* Coordinates (diagram.py, module level).                                 *)
(***************************************************************************)
x_coord(lateral_offset, check) ==
    QAdd(check.center_x, QMul(lateral_offset, check.right_x))
y_coord(lateral_offset, check) ==
    QAdd(check.center_y, QMul(lateral_offset, check.right_y))
z_coord(lateral_offset, check) ==
    QAdd(check.center_z, QMul(lateral_offset, check.right_z))

get_checkpoint_position_function(coord_str, lateral_offset, check) ==
    CASE coord_str = "x" -> x_coord(lateral_offset, check)
      [] coord_str = "y" -> y_coord(lateral_offset, check)
      [] coord_str = "z" -> z_coord(lateral_offset, check)
      [] coord_str = "-x" -> QNeg(x_coord(lateral_offset, check))
      [] coord_str = "-y" -> QNeg(y_coord(lateral_offset, check))
      [] coord_str = "-z" -> QNeg(z_coord(lateral_offset, check))

(***************************************************************************)
(* draw_checkpoints: the data extent it leaves in data_hmin .. data_vmax.  *)
(* The extent is <<hmin, hmax, vmin, vmax>>.                               *)
(***************************************************************************)
EmptyExtent == <<Inf, NegInf, Inf, NegInf>>

FoldPoint(ext, h, v) ==
    <<QMin(ext[1], h), QMax(ext[2], h), QMin(ext[3], v), QMax(ext[4], v)>>

\* Lines 400-402, math.sqrt of the squared differences of the line's start
\* (h0, v0) and middle (h1, v1) on the diagram's plane.
BasePlaneLength(h0, h1, v0, v1) ==
    QSqrt(QAdd(QMul(QSub(h1, h0), QSub(h1, h0)),
               QMul(QSub(v1, v0), QSub(v1, v0))))

\* The number's distance as number_distance + sign(number_distance) * w/2.
LabelDistance_by_sign(number_distance, half_track_width) ==
    IF QLt(I(0), number_distance) THEN QAdd(number_distance, half_track_width)
    ELSE IF QLt(number_distance, I(0)) THEN QSub(number_distance, half_track_width)
    ELSE number_distance

\* Lines 432-439: the number goes number_distance beyond the line's end.
LabelDistance(number_distance, half_track_width) ==
    IF QLt(I(0), number_distance)
    THEN QAdd(number_distance, half_track_width)
    ELSE QSub(number_distance, half_track_width)

\* Lines 441-445: the distance as a lateral offset; 0 when the line has no
\* length on the plane.
Label3dDistance(label_distance, base_3d_length, base_plane_length) ==
    IF QLt(I(0), base_plane_length) \/ QLt(base_plane_length, I(0))
    THEN QMul(label_distance, QDiv(base_3d_length, base_plane_length))
    ELSE I(0)

LabelPoint(c, axis_1, axis_2, label_3d_distance) ==
    <<get_checkpoint_position_function(axis_1, label_3d_distance, c),
      get_checkpoint_position_function(axis_2, label_3d_distance, c)>>

LabelCoordsFor(c, number_distance, axis_1, axis_2, half_track_width) ==
    LabelPoint(c, axis_1, axis_2,
        Label3dDistance(
            LabelDistance(number_distance, half_track_width),
            half_track_width,
            BasePlaneLength(
                get_checkpoint_position_function(axis_1, QNeg(half_track_width), c),
                get_checkpoint_position_function(axis_1, I(0), c),
                get_checkpoint_position_function(axis_2, QNeg(half_track_width), c),
                get_checkpoint_position_function(axis_2, I(0), c))))

\* Lines 431-447: where the number of checkpoint c is put.
LabelCoords(c, number_distance, axis_1, axis_2) ==
    LabelCoordsFor(c, number_distance, axis_1, axis_2, QDiv(c.track_width, I(2)))

FoldLabel(ext, label_coords) == FoldPoint(ext, label_coords[1], label_coords[2])

\* Lines 385-393 and 480-483: the line of checkpoint c, from its left end
\* through its centre to its right end, folded into the extent.
DrawLine(ext, c, axis_1, axis_2, half_track_width) ==
    FoldPoint(
        FoldPoint(
            FoldPoint(ext,
                get_checkpoint_position_function(axis_1, QNeg(half_track_width), c),
                get_checkpoint_position_function(axis_2, QNeg(half_track_width), c)),
            get_checkpoint_position_function(axis_1, I(0), c),
            get_checkpoint_position_function(axis_2, I(0), c)),
        get_checkpoint_position_function(axis_1, half_track_width, c),
        get_checkpoint_position_function(axis_2, half_track_width, c))

\* Lines 376-483 for one checkpoint, hidden_checkpoints not being looked at.
DrawOne_drawing_hidden(ext, c, hidden_checkpoints, hidden_numbers, number_distance, axis_1, axis_2) ==
    DrawLine(
        IF c.checkpoint \notin hidden_numbers
        THEN FoldLabel(ext, LabelCoords(c, number_distance, axis_1, axis_2))
        ELSE ext,
        c, axis_1, axis_2, QDiv(c.track_width, I(2)))

\* Lines 376-483 for one checkpoint: the extent after drawing c.
DrawOne(ext, c, hidden_checkpoints, hidden_numbers, number_distance, axis_1, axis_2) ==
    IF c.checkpoint \in hidden_checkpoints THEN ext
    ELSE DrawLine(
            IF c.checkpoint \notin hidden_numbers
            THEN FoldLabel(ext, LabelCoords(c, number_distance, axis_1, axis_2))
            ELSE ext,
            c, axis_1, axis_2, QDiv(c.track_width, I(2)))

RECURSIVE DrawFrom(_, _, _, _, _, _, _, _)
DrawFrom(ext, cps, i, hidden_checkpoints, hidden_numbers, number_distance, axis_1, axis_2) ==
    IF i > Len(cps) THEN ext
    ELSE DrawFrom(DrawOne(ext, cps[i], hidden_checkpoints, hidden_numbers,
                          number_distance, axis_1, axis_2),
                  cps, i + 1, hidden_checkpoints, hidden_numbers,
                  number_distance, axis_1, axis_2)

draw_checkpoints(cps, hidden_checkpoints, hidden_numbers, number_distance, axis_1, axis_2) ==
    DrawFrom(EmptyExtent, cps, 1, hidden_checkpoints, hidden_numbers,
             number_distance, axis_1, axis_2)

(***************************************************************************)
(* draw_checkpoints: what it gives to axes.plot and axes.text.             *)
(***************************************************************************)
get_point_position_function(coord_str, p) ==
    CASE coord_str = "x" -> p.x
      [] coord_str = "y" -> p.y
      [] coord_str = "z" -> p.z
      [] coord_str = "-x" -> QNeg(p.x)
      [] coord_str = "-y" -> QNeg(p.y)
      [] coord_str = "-z" -> QNeg(p.z)

\* The point of checkpoint c at a lateral offset, on the diagram's plane.
PlanePoint(c, axis_1, axis_2, lateral_offset) ==
    <<get_checkpoint_position_function(axis_1, lateral_offset, c),
      get_checkpoint_position_function(axis_2, lateral_offset, c)>>

\* Lines 385-393: the left end, the centre and the right end of the line.
BasePoints(c, axis_1, axis_2) ==
    {PlanePoint(c, axis_1, axis_2, QNeg(QDiv(c.track_width, I(2)))),
     PlanePoint(c, axis_1, axis_2, I(0)),
     PlanePoint(c, axis_1, axis_2, QDiv(c.track_width, I(2)))}

\* Lines 408-415: extend_length as a lateral offset; 0 when the line has no
\* length on the plane.
Extended3dLength(extend_length, base_3d_length, base_plane_length) ==
    IF QLt(I(0), base_plane_length)
    THEN QMul(extend_length, QDiv(base_3d_length, base_plane_length))
    ELSE I(0)

ExtendedEnds(c, axis_1, axis_2, extended_3d_length) ==
    {PlanePoint(c, axis_1, axis_2, QNeg(extended_3d_length)),
     PlanePoint(c, axis_1, axis_2, extended_3d_length)}

\* Lines 404-423: the two ends of the extended line of checkpoint c.
ExtendedPoints(c, extend_length, axis_1, axis_2) ==
    ExtendedEnds(c, axis_1, axis_2,
        Extended3dLength(extend_length, QDiv(c.track_width, I(2)),
            BasePlaneLength(
                get_checkpoint_position_function(axis_1,
                    QNeg(QDiv(c.track_width, I(2))), c),
                get_checkpoint_position_function(axis_1, I(0), c),
                get_checkpoint_position_function(axis_2,
                    QNeg(QDiv(c.track_width, I(2))), c),
                get_checkpoint_position_function(axis_2, I(0), c))))

\* The checkpoints of st that line 379 does not skip.
DrawnCheckpoints(st) ==
    {st.checkpoints[2][i] : i \in {j \in 1..Len(st.checkpoints[2]) :
        st.checkpoints[2][j].checkpoint \notin st.hidden_checkpoints}}

\* Lines 485-492: the points of the data path, if any.
PathPoints(st) ==
    IF st.data_path_points = None THEN {}
    ELSE {<<get_point_position_function(st.axis_1, st.data_path_points[2][i]),
            get_point_position_function(st.axis_2, st.data_path_points[2][i])>> :
          i \in 1..Len(st.data_path_points[2])}

\* Lines 494-513: both ends of every crossing segment, if any.
CrossingPoints(st) ==
    IF st.crossing_data = None THEN {}
    ELSE UNION {
        {<<get_point_position_function(st.axis_1, st.crossing_data[2][i].p1),
           get_point_position_function(st.axis_2, st.crossing_data[2][i].p1)>>,
         <<get_point_position_function(st.axis_1, st.crossing_data[2][i].p2),
           get_point_position_function(st.axis_2, st.crossing_data[2][i].p2)>>} :
        i \in 1..Len(st.crossing_data[2])}

\* Every point draw_checkpoints gives to axes.plot.
PlottedPoints(st) ==
    UNION {BasePoints(c, st.axis_1, st.axis_2) : c \in DrawnCheckpoints(st)}
    \cup UNION {ExtendedPoints(c, st.extend_length, st.axis_1, st.axis_2) :
                c \in {d \in DrawnCheckpoints(st) :
                         d.checkpoint \in st.extended_checkpoints}}
    \cup PathPoints(st)
    \cup CrossingPoints(st)

\* Every number draw_checkpoints gives to axes.text, with its position.
PlottedLabels(st) ==
    {<<c.checkpoint, LabelCoords(c, st.number_distance, st.axis_1, st.axis_2)>> :
        c \in {d \in DrawnCheckpoints(st) : d.checkpoint \notin st.hidden_numbers}}

\* The smallest box around a set of points; the sentinel around none.
BoundingBox(points) ==
    IF points = {} THEN EmptyExtent
    ELSE <<(CHOOSE p \in points : \A q \in points : QLe(p[1], q[1]))[1],
           (CHOOSE p \in points : \A q \in points : QLe(q[1], p[1]))[1],
           (CHOOSE p \in points : \A q \in points : QLe(p[2], q[2]))[2],
           (CHOOSE p \in points : \A q \in points : QLe(q[2], p[2]))[2]>>

(***************************************************************************)
(* The aspect fix shared by setup_figure (lines 543-560) and resize_event  *)
(* (lines 207-223): [kind, xlim, ylim].  kind is "ok", or                  *)
(* "ZeroDivisionError" when vrange is 0.0 (Python raises on hrange/vrange).*)
(***************************************************************************)
\* The aspect fix that always adds vertical range, shrinking the window when
\* the region is taller than the canvas.
AspectFix_vertical(hmin, hmax, vmin, vmax, width, height) ==
    IF QIsZero(QSub(vmax, vmin))
    THEN [kind |-> "ZeroDivisionError", xlim |-> <<hmin, hmax>>,
          ylim |-> <<vmin, vmax>>]
    ELSE [kind |-> "ok", xlim |-> <<hmin, hmax>>,
          ylim |-> <<QSub(vmin, QDiv(QSub(QMul(QSub(hmax, hmin),
                                               QDiv(I(height), I(width))),
                                          QSub(vmax, vmin)), I(2))),
                     QAdd(vmax, QDiv(QSub(QMul(QSub(hmax, hmin),
                                               QDiv(I(height), I(width))),
                                          QSub(vmax, vmin)), I(2)))>>]

AspectFix(hmin, hmax, vmin, vmax, width, height) ==
    LET hrange == QSub(hmax, hmin)
        vrange == QSub(vmax, vmin)
    IN  IF QIsZero(vrange)
        THEN [kind |-> "ZeroDivisionError", xlim |-> <<hmin, hmax>>,
              ylim |-> <<vmin, vmax>>]
        ELSE IF QLe(QDiv(I(width), I(height)), QDiv(hrange, vrange))
        THEN LET target_vrange == QMul(hrange, QDiv(I(height), I(width)))
                 extra_vspace_one_side == QDiv(QSub(target_vrange, vrange), I(2))
             IN  [kind |-> "ok", xlim |-> <<hmin, hmax>>,
                  ylim |-> <<QSub(vmin, extra_vspace_one_side),
                             QAdd(vmax, extra_vspace_one_side)>>]
        ELSE LET target_hrange == QMul(vrange, QDiv(I(width), I(height)))
                 extra_hspace_one_side == QDiv(QSub(target_hrange, hrange), I(2))
             IN  [kind |-> "ok",
                  xlim |-> <<QSub(hmin, extra_hspace_one_side),
                             QAdd(hmax, extra_hspace_one_side)>>,
                  ylim |-> <<vmin, vmax>>]

margin_factor == <<1, 10>>

\* setup_figure, lines 532-564, on the extent draw_checkpoints left.  With no
\* checkpoint drawn the extent is (inf, -inf, inf, -inf): the ranges are
\* -inf, hrange/vrange is nan, the else branch is taken and the limits
\* computed are (nan, nan) and (inf, -inf): kind "nan".
FitToData(ext, width, height) ==
    IF ~IsFinite(ext[1])
    THEN [kind |-> "nan", xlim |-> <<Inf, NegInf>>, ylim |-> <<Inf, NegInf>>]
    ELSE
        LET axes_hmin == QSub(ext[1], QMul(QSub(ext[2], ext[1]), margin_factor))
            axes_hmax == QAdd(ext[2], QMul(QSub(ext[2], ext[1]), margin_factor))
            axes_vmin == QSub(ext[3], QMul(QSub(ext[4], ext[3]), margin_factor))
            axes_vmax == QAdd(ext[4], QMul(QSub(ext[4], ext[3]), margin_factor))
        IN  AspectFix(axes_hmin, axes_hmax, axes_vmin, axes_vmax, width, height)

(***************************************************************************)
(* Text of the line edits, and float() on it.                              *)
(***************************************************************************)
float(text) ==
    CASE text = "75" -> <<"ok", I(75)>>
      [] text = "14" -> <<"ok", I(14)>>
      [] text = "2000" -> <<"ok", I(2000)>>
      [] text = "100" -> <<"ok", I(100)>>
      [] text = "200" -> <<"ok", I(200)>>
      [] text = "-75" -> <<"ok", I(-75)>>
      [] text = "0" -> <<"ok", I(0)>>
      [] text = "10" -> <<"ok", I(10)>>
      [] OTHER -> <<"ValueError">>

(***************************************************************************)
(* parse_checkpoint_set (main.py 24-45).  The text of a checkpoint set is  *)
(* a sequence of characters over digits, ",", "-", "+", " " and letters.   *)
(* A result is <<"ok", value>> or <<"ValueError">>.                        *)
(***************************************************************************)
DigitChars == <<"0", "1", "2", "3", "4", "5", "6", "7", "8", "9">>
IsDigit(c) == \E d \in 1..10 : DigitChars[d] = c
DigitValue(c) == (CHOOSE d \in 1..10 : DigitChars[d] = c) - 1

\* str.split(sep): the pieces between the separators, empty ones included.
RECURSIVE SplitFrom(_, _, _, _, _)
SplitFrom(chars, sep, i, piece, done) ==
    IF i > Len(chars) THEN Append(done, piece)
    ELSE IF chars[i] = sep
    THEN SplitFrom(chars, sep, i + 1, <<>>, Append(done, piece))
    ELSE SplitFrom(chars, sep, i + 1, Append(piece, chars[i]), done)

Split(chars, sep) == SplitFrom(chars, sep, 1, <<>>, <<>>)

\* str.strip(): without the blanks at either end.
RECURSIVE Strip(_)
Strip(chars) ==
    IF chars = <<>> THEN chars
    ELSE IF Head(chars) = " " THEN Strip(Tail(chars))
    ELSE IF chars[Len(chars)] = " " THEN Strip(SubSeq(chars, 1, Len(chars) - 1))
    ELSE chars

RECURSIVE DigitsValue(_, _, _)
DigitsValue(chars, i, acc) ==
    IF i > Len(chars) THEN acc
    ELSE DigitsValue(chars, i + 1, 10 * acc + DigitValue(chars[i]))

\* int() of digits, none of it a sign.
Unsigned(chars) ==
    IF chars # <<>> /\ \A i \in 1..Len(chars) : IsDigit(chars[i])
    THEN <<"ok", DigitsValue(chars, 1, 0)>>
    ELSE <<"ValueError">>

Negated(parsed) == IF parsed[1] = "ok" THEN <<"ok", -parsed[2]>> ELSE parsed

\* int() of stripped text: an optional sign, then digits.
Signed(chars) ==
    IF chars # <<>> /\ Head(chars) = "+" THEN Unsigned(Tail(chars))
    ELSE IF chars # <<>> /\ Head(chars) = "-" THEN Negated(Unsigned(Tail(chars)))
    ELSE Unsigned(chars)

int(chars) == Signed(Strip(chars))

\* Lines 37-42, int() of both ends done: range(max(low, 0), min(high, 999) + 1).
RangeBetween(low, high) ==
    IF low[1] = "ok" /\ high[1] = "ok"
    THEN <<"ok", (IF low[2] > 0 THEN low[2] ELSE 0) ..
                 (IF high[2] < 999 THEN high[2] ELSE 999)>>
    ELSE <<"ValueError">>

\* Line 37, low, high = range_str.split('-'): two parts or ValueError.
RangeOf(parts) ==
    IF Len(parts) = 2 THEN RangeBetween(int(parts[1]), int(parts[2]))
    ELSE <<"ValueError">>

Single(parsed) == IF parsed[1] = "ok" THEN <<"ok", {parsed[2]}>> ELSE parsed

\* Lines 34-45 for one stripped range_str.
PieceSet(range_str) ==
    IF \E i \in 1..Len(range_str) : range_str[i] = "-"
    THEN RangeOf(Split(range_str, "-"))
    ELSE Single(int(range_str))

Joined(checkpoint_set, piece, rest) ==
    IF piece[1] = "ok" /\ rest[1] = "ok"
    THEN <<"ok", checkpoint_set \cup piece[2] \cup rest[2]>>
    ELSE <<"ValueError">>

RECURSIVE ParsePieces(_, _)
ParsePieces(range_strs, i) ==
    IF i > Len(range_strs) THEN <<"ok", {}>>
    ELSE Joined({}, PieceSet(Strip(range_strs[i])), ParsePieces(range_strs, i + 1))

parse_checkpoint_set(checkpoint_set_str) ==
    IF checkpoint_set_str = <<>> THEN <<"ok", {}>>
    ELSE ParsePieces(Split(checkpoint_set_str, ","), 1)

VARIABLES
    status,                        \* the Status object shared by both classes
    error_label,                   \* MainWidget.error_label text
    save_error_label,              \* MainWidget.save_error_label text
    xlim, ylim,                    \* axes.get_xlim(), axes.get_ylim()
    figure_dpi,                    \* figure.get_dpi()
    previous_dpi,                  \* Diagram.previous_dpi
    size_inches,                   \* figure.get_size_inches()
    drag_position,                 \* Diagram.drag_position
    rectangle_select_interaction,  \* NoneStr, "ready" or "drawing"
    rectangle_select_origin,       \* (rectangle_select_origin_x, _y)
    save_rectangle,                \* Diagram.save_rectangle
    session,                       \* "running", or "aborted" by an exception
    savefig,                       \* what the handler that just ran did in save
    last_refresh_course,           \* course_code when a refresh last rebuilt
    save_rectangle_dpi,            \* figure dpi when save_rectangle was stored
    n_view_ops, n_resizes,         \* how many pans and zooms, resizes were done
    trip                           \* bookkeeping of a zoom round trip

vars == <<status, error_label, save_error_label, xlim, ylim, figure_dpi,
          previous_dpi, size_inches, drag_position,
          rectangle_select_interaction, rectangle_select_origin,
          save_rectangle, session, savefig, last_refresh_course,
          save_rectangle_dpi, n_view_ops, n_resizes, trip>>

\* savefig when the handler that just ran did not get to Diagram.save.
NotCalled == [outcome |-> "not called"]

\* FigureCanvas.get_width_height(): the figure's size in pixels.
canvas_width == QInt(QMul(size_inches[1], figure_dpi))
canvas_height == QInt(QMul(size_inches[2], figure_dpi))

\* The state once MainWidget.init_ui has built the Diagram and has run
\* on_course_code_change() and update_diagram() with the default texts
\* (main.py 247, 281-282): no course, the fields parsed, nothing refreshed.
InitStatus ==
    [course_code |-> NoneStr, course_code_changed |-> FALSE,
     checkpoints |-> None, data_path_points |-> None, crossing_data |-> None,
     number_distance |-> float("75")[2], number_size |-> float("14")[2],
     extended_checkpoints |-> {}, extend_length |-> float("2000")[2],
     hidden_checkpoints |-> {}, hidden_numbers |-> {},
     axis_1 |-> "x", axis_2 |-> "-z", data_path_name |-> NoneStr,
     dpi |-> float("100")[2], save_dpi |-> Unset]

InitDiagram ==
    /\ xlim = <<I(0), I(1)>>
    /\ ylim = <<I(0), I(1)>>
    /\ figure_dpi = I(100)
    /\ previous_dpi = I(100)
    /\ size_inches = <<Q(64, 10), Q(48, 10)>>
    /\ drag_position = None
    /\ rectangle_select_interaction = NoneStr
    /\ rectangle_select_origin = Unset
    /\ save_rectangle = Unset

Init ==
    /\ status = InitStatus
    /\ error_label = ""
    /\ save_error_label = ""
    /\ InitDiagram
    /\ session = "running"
    /\ savefig = NotCalled
    /\ last_refresh_course = NoneStr
    /\ save_rectangle_dpi = None
    /\ n_view_ops = 0
    /\ n_resizes = 0
    /\ trip = None

\* An exception that leaves a Qt slot or a canvas callback: PyQt5 from 5.5
\* on aborts the process, older versions print it and go on.
Escapes == session' \in {"running", "aborted"}

\* The dpi the stored rectangle was drawn under (None with no rectangle).
RectangleDpi ==
    save_rectangle_dpi' =
        IF save_rectangle' \in {None, Unset} THEN None
        ELSE IF save_rectangle' = save_rectangle THEN save_rectangle_dpi
        ELSE figure_dpi

(***************************************************************************)
(* Diagram: the view window.                                               *)
(***************************************************************************)
convert_coords_canvas_to_game(x, y) ==
    <<QAdd(xlim[1], QMul(QSub(xlim[2], xlim[1]), QDiv(x, I(canvas_width)))),
      QAdd(ylim[1], QMul(QSub(ylim[2], ylim[1]), QDiv(y, I(canvas_height))))>>

\* pan that moves the lower bounds only, stretching the window.
pan_stretching(change_x, change_y) ==
    /\ xlim' = <<QSub(xlim[1], QMul(I(change_x),
                        QDiv(QSub(xlim[2], xlim[1]), I(canvas_width)))),
                 xlim[2]>>
    /\ ylim' = <<QSub(ylim[1], QMul(I(change_y),
                        QDiv(QSub(ylim[2], ylim[1]), I(canvas_height)))),
                 ylim[2]>>

\* pan that moves the window with the pointer, not against it.
pan_reversed(change_x, change_y) ==
    /\ xlim' = <<QAdd(xlim[1], QMul(I(change_x),
                        QDiv(QSub(xlim[2], xlim[1]), I(canvas_width)))),
                 QAdd(xlim[2], QMul(I(change_x),
                        QDiv(QSub(xlim[2], xlim[1]), I(canvas_width))))>>
    /\ ylim' = <<QAdd(ylim[1], QMul(I(change_y),
                        QDiv(QSub(ylim[2], ylim[1]), I(canvas_height)))),
                 QAdd(ylim[2], QMul(I(change_y),
                        QDiv(QSub(ylim[2], ylim[1]), I(canvas_height))))>>

pan(change_x, change_y) ==
    LET x_coord_ratio_game_to_canvas ==
            QDiv(QSub(xlim[2], xlim[1]), I(canvas_width))
        y_coord_ratio_game_to_canvas ==
            QDiv(QSub(ylim[2], ylim[1]), I(canvas_height))
    IN  /\ xlim' = <<QSub(xlim[1], QMul(I(change_x), x_coord_ratio_game_to_canvas)),
                     QSub(xlim[2], QMul(I(change_x), x_coord_ratio_game_to_canvas))>>
        /\ ylim' = <<QSub(ylim[1], QMul(I(change_y), y_coord_ratio_game_to_canvas)),
                     QSub(ylim[2], QMul(I(change_y), y_coord_ratio_game_to_canvas))>>

zoom_factor == <<6, 5>>

\* zoom about the middle of the window, wherever the pointer is.
zoom_centred(x, y, direction_is_inward) ==
    LET centre == <<QDiv(QAdd(xlim[1], xlim[2]), I(2)),
                    QDiv(QAdd(ylim[1], ylim[2]), I(2))>>
        space_stretch_factor ==
            IF direction_is_inward THEN QDiv(I(1), zoom_factor) ELSE zoom_factor
    IN  /\ xlim' = <<QSub(centre[1], QMul(QSub(centre[1], xlim[1]), space_stretch_factor)),
                     QSub(centre[1], QMul(QSub(centre[1], xlim[2]), space_stretch_factor))>>
        /\ ylim' = <<QSub(centre[2], QMul(QSub(centre[2], ylim[1]), space_stretch_factor)),
                     QSub(centre[2], QMul(QSub(centre[2], ylim[2]), space_stretch_factor))>>

\* zoom with the inward factor taken as 1 - (zoom_factor - 1), not 1/zoom_factor.
zoom_subtracting(x, y, direction_is_inward) ==
    LET game_coords == convert_coords_canvas_to_game(x, y)
        space_stretch_factor ==
            IF direction_is_inward THEN QSub(I(2), zoom_factor) ELSE zoom_factor
    IN  /\ xlim' = <<QSub(game_coords[1],
                          QMul(QSub(game_coords[1], xlim[1]), space_stretch_factor)),
                     QSub(game_coords[1],
                          QMul(QSub(game_coords[1], xlim[2]), space_stretch_factor))>>
        /\ ylim' = <<QSub(game_coords[2],
                          QMul(QSub(game_coords[2], ylim[1]), space_stretch_factor)),
                     QSub(game_coords[2],
                          QMul(QSub(game_coords[2], ylim[2]), space_stretch_factor))>>

\* zoom that brings both bounds of each axis to the anchor.
zoom_collapsing(x, y, direction_is_inward) ==
    /\ xlim' = <<convert_coords_canvas_to_game(x, y)[1],
                 convert_coords_canvas_to_game(x, y)[1]>>
    /\ ylim' = <<convert_coords_canvas_to_game(x, y)[2],
                 convert_coords_canvas_to_game(x, y)[2]>>

\* zoom that scales the horizontal axis only.
zoom_horizontal(x, y, direction_is_inward) ==
    /\ xlim' = <<QSub(convert_coords_canvas_to_game(x, y)[1],
                      QMul(QSub(convert_coords_canvas_to_game(x, y)[1], xlim[1]),
                           IF direction_is_inward THEN QDiv(I(1), zoom_factor)
                           ELSE zoom_factor)),
                 QSub(convert_coords_canvas_to_game(x, y)[1],
                      QMul(QSub(convert_coords_canvas_to_game(x, y)[1], xlim[2]),
                           IF direction_is_inward THEN QDiv(I(1), zoom_factor)
                           ELSE zoom_factor))>>
    /\ ylim' = ylim

zoom(x, y, direction_is_inward) ==
    LET game_coords == convert_coords_canvas_to_game(x, y)
        space_stretch_factor ==
            IF direction_is_inward THEN QDiv(I(1), zoom_factor) ELSE zoom_factor
    IN  /\ xlim' = <<QSub(game_coords[1],
                          QMul(QSub(game_coords[1], xlim[1]), space_stretch_factor)),
                     QSub(game_coords[1],
                          QMul(QSub(game_coords[1], xlim[2]), space_stretch_factor))>>
        /\ ylim' = <<QSub(game_coords[2],
                          QMul(QSub(game_coords[2], ylim[1]), space_stretch_factor)),
                     QSub(game_coords[2],
                          QMul(QSub(game_coords[2], ylim[2]), space_stretch_factor))>>

zoom_in(x, y) == zoom(x, y, TRUE)
zoom_out(x, y) == zoom(x, y, FALSE)

(***************************************************************************)
(* Diagram: the rectangle select tool.                                     *)
(***************************************************************************)
activate_rectangle_select ==
    /\ save_rectangle' = None
    /\ rectangle_select_interaction' = "ready"

deactivate_rectangle_select ==
    /\ save_rectangle' = None
    /\ rectangle_select_interaction' = NoneStr

\* A press that cancels nothing: outside "ready" it leaves the tool alone.
rectangle_select_button_press_event_ignoring(x, y) ==
    IF rectangle_select_interaction = "ready"
    THEN /\ rectangle_select_origin' = <<x, y>>
         /\ rectangle_select_interaction' = "drawing"
         /\ UNCHANGED save_rectangle
    ELSE UNCHANGED <<save_rectangle, rectangle_select_interaction,
                     rectangle_select_origin>>

rectangle_select_button_press_event(x, y) ==
    IF rectangle_select_interaction = "ready"
    THEN /\ rectangle_select_origin' = <<x, y>>
         /\ rectangle_select_interaction' = "drawing"
         /\ UNCHANGED save_rectangle
    ELSE /\ deactivate_rectangle_select
         /\ UNCHANGED rectangle_select_origin

\* max(v, 0) and then min(., limit), lines 344-349.
Bounded(v, limit) ==
    LET lower == IF v > 0 THEN v ELSE 0
    IN  IF lower < limit THEN lower ELSE limit

\* A release that erases the stored rectangle when nothing is being drawn.
rectangle_select_button_release_event_erasing(x, y) ==
    IF rectangle_select_interaction = "drawing"
    THEN /\ save_rectangle' =
                <<rectangle_select_origin,
                  <<Bounded(x, canvas_width), Bounded(y, canvas_height)>> >>
         /\ rectangle_select_interaction' = NoneStr
    ELSE deactivate_rectangle_select

\* A release that stores the rectangle and goes on drawing.
rectangle_select_button_release_event_drawing_on(x, y) ==
    IF rectangle_select_interaction = "drawing"
    THEN /\ save_rectangle' =
                <<rectangle_select_origin,
                  <<Bounded(x, canvas_width), Bounded(y, canvas_height)>> >>
         /\ UNCHANGED rectangle_select_interaction
    ELSE UNCHANGED <<save_rectangle, rectangle_select_interaction>>

rectangle_select_button_release_event(x, y) ==
    IF rectangle_select_interaction = "drawing"
    THEN /\ save_rectangle' =
                <<rectangle_select_origin,
                  <<Bounded(x, canvas_width), Bounded(y, canvas_height)>> >>
         /\ rectangle_select_interaction' = NoneStr
    ELSE UNCHANGED <<save_rectangle, rectangle_select_interaction>>

(***************************************************************************)
(* Diagram: the canvas callbacks.  Each sets every variable but trip.      *)
(***************************************************************************)
button_press_event(x, y) ==
    /\ session = "running"
    /\ rectangle_select_button_press_event(x, y)
    /\ drag_position' =
            IF rectangle_select_interaction' = NoneStr THEN <<x, y>>
            ELSE drag_position
    /\ RectangleDpi
    /\ savefig' = NotCalled
    /\ UNCHANGED <<status, error_label, save_error_label, xlim, ylim, figure_dpi,
                   previous_dpi, size_inches, session, last_refresh_course,
                   n_view_ops, n_resizes>>

button_release_event(x, y) ==
    /\ session = "running"
    /\ rectangle_select_button_release_event(x, y)
    /\ drag_position' = None
    /\ RectangleDpi
    /\ savefig' = NotCalled
    /\ UNCHANGED <<status, error_label, save_error_label, xlim, ylim, figure_dpi,
                   previous_dpi, size_inches, rectangle_select_origin, session,
                   last_refresh_course, n_view_ops, n_resizes>>

\* rectangle_select_motion_notify_event only reshapes the rubber band, which
\* is not part of the state; the coordinates label is not modelled either.
motion_notify_event(x, y) ==
    /\ session = "running"
    /\ IF drag_position # None
       THEN /\ pan(x - drag_position[1], y - drag_position[2])
            /\ drag_position' = <<x, y>>
            /\ n_view_ops' = n_view_ops + 1
       ELSE UNCHANGED <<xlim, ylim, drag_position, n_view_ops>>
    /\ savefig' = NotCalled
    /\ UNCHANGED <<status, error_label, save_error_label, figure_dpi,
                   previous_dpi, size_inches, rectangle_select_interaction,
                   rectangle_select_origin, save_rectangle, session,
                   last_refresh_course, save_rectangle_dpi, n_resizes>>

scroll_event(x, y, step) ==
    /\ session = "running"
    /\ IF step > 0 THEN zoom_in(I(x), I(y)) ELSE zoom_out(I(x), I(y))
    /\ n_view_ops' = n_view_ops + 1
    /\ savefig' = NotCalled
    /\ UNCHANGED <<status, error_label, save_error_label, figure_dpi,
                   previous_dpi, size_inches, drag_position,
                   rectangle_select_interaction, rectangle_select_origin,
                   save_rectangle, session, last_refresh_course,
                   save_rectangle_dpi, n_resizes>>

key_press_event(key) ==
    /\ session = "running"
    /\ IF key = "up"
       THEN /\ zoom_in(Q(canvas_width, 2), Q(canvas_height, 2))
            /\ n_view_ops' = n_view_ops + 1
       ELSE IF key = "down"
       THEN /\ zoom_out(Q(canvas_width, 2), Q(canvas_height, 2))
            /\ n_view_ops' = n_view_ops + 1
       ELSE UNCHANGED <<xlim, ylim, n_view_ops>>
    /\ savefig' = NotCalled
    /\ UNCHANGED <<status, error_label, save_error_label, figure_dpi,
                   previous_dpi, size_inches, drag_position,
                   rectangle_select_interaction, rectangle_select_origin,
                   save_rectangle, session, last_refresh_course,
                   save_rectangle_dpi, n_resizes>>

\* Lines 207-223, the aspect fix of resize_event on the current limits.
ResizeFix(width, height) ==
    LET hrange == QSub(xlim[2], xlim[1])
        vrange == QSub(ylim[2], ylim[1])
    IN  IF QIsZero(vrange)
        THEN [kind |-> "ZeroDivisionError", xlim |-> xlim, ylim |-> ylim]
        ELSE IF QLe(QDiv(I(width), I(height)), QDiv(hrange, vrange))
        THEN LET target_vrange == QMul(hrange, QDiv(I(height), I(width)))
                 extra_vspace_one_side == QDiv(QSub(target_vrange, vrange), I(2))
             IN  [kind |-> "ok", xlim |-> xlim,
                  ylim |-> <<QSub(ylim[1], extra_vspace_one_side),
                             QAdd(ylim[2], extra_vspace_one_side)>>]
        ELSE LET target_hrange == QMul(vrange, QDiv(I(width), I(height)))
                 extra_hspace_one_side == QDiv(QSub(target_hrange, hrange), I(2))
             IN  [kind |-> "ok",
                  xlim |-> <<QSub(xlim[1], extra_hspace_one_side),
                             QAdd(xlim[2], extra_hspace_one_side)>>,
                  ylim |-> ylim]

\* The canvas is resized to width x height pixels: the backend gives the
\* figure that size (in inches, at the figure's dpi) and calls resize_event.
resize_event(width, height) ==
    /\ session = "running"
    /\ size_inches' = <<QDiv(I(width), figure_dpi), QDiv(I(height), figure_dpi)>>
    /\ n_resizes' = n_resizes + 1
    /\ LET fix == ResizeFix(width, height)
       IN  IF fix.kind = "ok"
           THEN /\ xlim' = fix.xlim
                /\ ylim' = fix.ylim
                /\ deactivate_rectangle_select
                /\ UNCHANGED session
           ELSE /\ UNCHANGED <<xlim, ylim, save_rectangle,
                               rectangle_select_interaction>>
                /\ Escapes
    /\ RectangleDpi
    /\ savefig' = NotCalled
    /\ UNCHANGED <<status, error_label, save_error_label, figure_dpi,
                   previous_dpi, drag_position, rectangle_select_origin,
                   last_refresh_course, n_view_ops>>

\* activate_rectangle_select has no caller in main.py yet ("TODO: Rectangle
\* select tool"); it is the Diagram's entry point for the tool.
ActivateRectangleSelect ==
    /\ session = "running"
    /\ activate_rectangle_select
    /\ RectangleDpi
    /\ savefig' = NotCalled
    /\ UNCHANGED <<status, error_label, save_error_label, xlim, ylim, figure_dpi,
                   previous_dpi, size_inches, drag_position,
                   rectangle_select_origin, session, last_refresh_course,
                   n_view_ops, n_resizes>>

(***************************************************************************)
(* MainWidget: course selection and the update request.                    *)
(***************************************************************************)
ComboTexts == Courses \cup {"Select course"}

ComboText == IF status.course_code = NoneStr THEN "Select course" ELSE status.course_code

\* currentTextChanged fires when the combo box text changes.
on_course_code_change(course_code_text) ==
    /\ session = "running"
    /\ course_code_text # ComboText
    /\ status' = [status EXCEPT
            !.course_code = IF course_code_text = "Select course" THEN NoneStr
                            ELSE course_code_text,
            !.course_code_changed = TRUE]
    /\ savefig' = NotCalled
    /\ UNCHANGED <<error_label, save_error_label, xlim, ylim, figure_dpi,
                   previous_dpi, size_inches, drag_position,
                   rectangle_select_interaction, rectangle_select_origin,
                   save_rectangle, session, last_refresh_course,
                   save_rectangle_dpi, n_view_ops, n_resizes>>

\* The texts of the line edits as init_ui leaves them (main.py 134-188).
DefaultTexts ==
    [number_distance |-> "75", number_size |-> "14",
     extended_checkpoints |-> <<>>, extend_length |-> "2000",
     hidden_checkpoints |-> <<>>, hidden_numbers |-> <<>>, dpi |-> "100"]

\* One try/except of update_diagram_fields: the field takes the parsed value,
\* or keeps its value and the error label takes the message.
\* The try/except that leaves the field alone once an earlier field has failed,
\* as one try block around all the fields would.
ParsedField_stopping(fields, field, parsed, message) ==
    IF fields.error # "" THEN fields
    ELSE IF parsed[1] = "ok"
    THEN [st |-> [fields.st EXCEPT ![field] = parsed[2]], error |-> fields.error]
    ELSE [st |-> fields.st, error |-> message]

ParsedField(fields, field, parsed, message) ==
    IF parsed[1] = "ok"
    THEN [st |-> [fields.st EXCEPT ![field] = parsed[2]], error |-> fields.error]
    ELSE [st |-> fields.st, error |-> message]

\* Lines 343-349: no data path is selected in the combo box.
DataPathField(fields) ==
    [st |-> [fields.st EXCEPT !.data_path_name = NoneStr], error |-> fields.error]

\* update_diagram_fields on the texts of the line edits, the error label
\* having been cleared by update_diagram (line 359).  The axis combo boxes
\* are left on "x" and "-z".
update_diagram_fields(texts) ==
    ParsedField(
      DataPathField(
        ParsedField(
          ParsedField(
            ParsedField(
              ParsedField(
                ParsedField(
                  ParsedField([st |-> status, error |-> ""],
                    "number_distance", float(texts.number_distance),
                    "Number distance must be a number."),
                  "number_size", float(texts.number_size),
                  "Number size must be a number."),
                "extended_checkpoints",
                parse_checkpoint_set(texts.extended_checkpoints),
                "Extended checkpoints are not in the correct format."),
              "extend_length", float(texts.extend_length),
              "Extend length must be a number."),
            "hidden_checkpoints", parse_checkpoint_set(texts.hidden_checkpoints),
            "Hidden checkpoints are not in the correct format."),
          "hidden_numbers", parse_checkpoint_set(texts.hidden_numbers),
          "Hidden numbers are not in the correct format.")),
      "dpi", float(texts.dpi), "DPI must be a number.")

\* read_checkpoints: the file opens (read_ok) or IOError is caught.
read_checkpoints(st, read_ok) ==
    IF read_ok
    THEN [st |-> [st EXCEPT !.checkpoints = <<"list", LoadedCheckpoints(st.course_code)>>],
          error |-> ""]
    ELSE [st |-> st, error |-> "There was a problem trying to read"]

\* What axes.plot leaves in the limits when setup_figure does not get to set
\* them: the plotted checkpoint lines with matplotlib's 5% margins, a zero
\* range widened first.
AutoscaledAxis(lo, hi) ==
    LET e == <<1, 20>>
        w == IF lo = hi
             THEN IF QIsZero(lo) THEN <<QNeg(e), e>>
                  ELSE <<QSub(lo, QMul(e, Q(Abs(lo[1]), lo[2]))),
                         QAdd(hi, QMul(e, Q(Abs(hi[1]), hi[2])))>>
             ELSE <<lo, hi>>
        delta == QMul(QSub(w[2], w[1]), e)
    IN  <<QSub(w[1], delta), QAdd(w[2], delta)>>

\* The whole number of pixels a length of the figure stands for at a dpi:
\* inches * dpi, or the next whole number when rounding left it just below.
WholePixels(inches, dpi) ==
    IF QMul(inches, dpi)[2] = 1 THEN QMul(inches, dpi)[1]
    ELSE QInt(QMul(inches, dpi)) + 1

\* Line 528 in IEEE-754 double arithmetic, for lengths of 480, 600, 640 and
\* 800 pixels and dpis of 75, 100 and 200: (pixels / prev) * (prev / new) * new
\* is 479.99999999999994 for 480 pixels going from 100 or 200 dpi to 75 dpi,
\* and whole in every other case.  A length that went through this and
\* back can also come out whole.
LosesPixel(pixels, prev, new) ==
    pixels = 480 /\ prev \in {I(100), I(200)} /\ new = I(75)

\* x_inches * (previous_dpi / dpi), lines 526-529, for one length of the
\* figure: the results floating point can give.  A length just below a whole
\* number of pixels is held as that number less a half.
Rescaled(inches, prev, new) ==
    {QDiv(I(WholePixels(inches, prev)), new)}
    \cup (IF LosesPixel(WholePixels(inches, prev), prev, new)
          THEN {QDiv(Q(2 * WholePixels(inches, prev) - 1, 2), new)}
          ELSE {})

\* The figure sizes setup_figure lines 518-530 can leave for the dpi of st.
FigureSizesFor(st) ==
    IF previous_dpi # st.dpi
    THEN {<<w, h>> : w \in Rescaled(size_inches[1], previous_dpi, st.dpi),
                     h \in Rescaled(size_inches[2], previous_dpi, st.dpi)}
    ELSE {size_inches}

\* The limits axes.plot left, when setup_figure raised before setting its own.
PlottedLimits(plotted) ==
    /\ xlim' = AutoscaledAxis(plotted[1], plotted[2])
    /\ ylim' = AutoscaledAxis(plotted[3], plotted[4])

\* refresh from line 107 on, setup_figure having computed fit; on return,
\* line 378 of update_diagram.  On non-finite limits the matplotlib in use
\* either raises ValueError or sets (-0.001, 0.001).
RefreshFitted(st, fit) ==
    \E raised \in (IF fit.kind = "nan" THEN {"ValueError", "no"}
                   ELSE IF fit.kind = "ZeroDivisionError" THEN {fit.kind}
                   ELSE {"no"}) :
        IF raised # "no"
        THEN /\ IF fit.kind = "nan"
                THEN xlim' = <<I(0), I(1)>> /\ ylim' = <<I(0), I(1)>>
                ELSE PlottedLimits(BoundingBox(PlottedPoints(st)))
             /\ UNCHANGED <<rectangle_select_interaction, save_rectangle,
                            last_refresh_course>>
             /\ status' = st
             /\ Escapes
        ELSE /\ xlim' = IF ~st.course_code_changed THEN xlim
                        ELSE IF fit.kind = "nan" THEN <<Q(-1, 1000), Q(1, 1000)>>
                        ELSE fit.xlim
             /\ ylim' = IF ~st.course_code_changed THEN ylim
                        ELSE IF fit.kind = "nan" THEN <<Q(-1, 1000), Q(1, 1000)>>
                        ELSE fit.ylim
             /\ deactivate_rectangle_select
             /\ last_refresh_course' = st.course_code
             /\ status' = [st EXCEPT !.course_code_changed = FALSE]
             /\ UNCHANGED session

\* The extent draw_checkpoints leaves for the status st.
DrawnExtent(st) ==
    draw_checkpoints(st.checkpoints[2], st.hidden_checkpoints, st.hidden_numbers,
                     st.number_distance, st.axis_1, st.axis_2)

\* Line 540, canvas.get_width_height() of a figure of the given size at the
\* dpi of st.
CanvasOf(st, size) == <<QInt(QMul(size[1], st.dpi)), QInt(QMul(size[2], st.dpi))>>

\* setup_figure's limits for the status st, the figure having the given size.
SetupFigure(st, size) ==
    FitToData(DrawnExtent(st), CanvasOf(st, size)[1], CanvasOf(st, size)[2])

\* refresh from line 104 on: draw_checkpoints, then setup_figure with the
\* figure size it gives the figure.
RefreshSized(st, size) ==
    /\ figure_dpi' = st.dpi
    /\ size_inches' = size
    /\ previous_dpi' = st.dpi
    /\ RefreshFitted(st, SetupFigure(st, size))

\* Diagram.refresh with the status st.
refresh(st) ==
    IF st.course_code = NoneStr
    THEN /\ UNCHANGED <<xlim, ylim, figure_dpi, previous_dpi, size_inches,
                        rectangle_select_interaction, save_rectangle, session,
                        last_refresh_course>>
         /\ status' = [st EXCEPT !.course_code_changed = FALSE]
    ELSE IF st.checkpoints = None
    THEN \* for c in None: TypeError, after axes.clear()
         /\ xlim' = <<I(0), I(1)>>
         /\ ylim' = <<I(0), I(1)>>
         /\ UNCHANGED <<figure_dpi, previous_dpi, size_inches,
                        rectangle_select_interaction, save_rectangle,
                        last_refresh_course>>
         /\ status' = st
         /\ Escapes
    ELSE \E size \in FigureSizesFor(st) : RefreshSized(st, size)

\* update_diagram from line 362 on, the fields read.
UpdateRead(fields, read_ok) ==
    LET reads == fields.st.course_code_changed /\ fields.st.course_code # NoneStr
    IN  IF reads
        THEN [st |-> read_checkpoints(fields.st, read_ok).st,
              error |-> IF read_ok THEN fields.error
                        ELSE read_checkpoints(fields.st, read_ok).error]
        ELSE fields

\* update_diagram from line 365 on.
UpdateRefresh(read) ==
    /\ error_label' = read.error
    /\ refresh([read.st EXCEPT !.data_path_points = None, !.crossing_data = None])

\* The "Update diagram" button.  No data path is selected and the crossings
\* box is not ticked, so lines 365-374 clear both.
update_diagram(texts, read_ok) ==
    /\ session = "running"
    /\ UpdateRefresh(UpdateRead(update_diagram_fields(texts), read_ok))
    /\ RectangleDpi
    /\ savefig' = NotCalled
    /\ UNCHANGED <<save_error_label, drag_position, rectangle_select_origin,
                   n_view_ops, n_resizes>>

(***************************************************************************)
(* Saving.                                                                 *)
(***************************************************************************)
IsRectangle(r) == r # None /\ r # Unset

ZeroSize(r) == r[1][1] = r[2][1] \/ r[1][2] = r[2][2]

IMin(a, b) == IF a < b THEN a ELSE b
IMax(a, b) == IF a < b THEN b ELSE a

\* Diagram.save, lines 578-590: the bbox_inches handed to savefig.
BboxInches(r, dpi) ==
    <<  <<QDiv(I(IMin(r[1][1], r[2][1])), dpi), QDiv(I(IMin(r[1][2], r[2][2])), dpi)>>,
        <<QDiv(I(IMax(r[1][1], r[2][1])), dpi), QDiv(I(IMax(r[1][2], r[2][2])), dpi)>> >>

\* A save that erases the selection once the image is out.
save_erasing(filepath, written) ==
    /\ savefig' = [outcome |-> IF written THEN "written" ELSE "OSError",
                   filepath |-> filepath, dpi |-> status'.save_dpi,
                   bbox_inches |-> None]
    /\ IF written THEN UNCHANGED session ELSE Escapes
    /\ save_rectangle' = None
    /\ rectangle_select_interaction' = NoneStr
    /\ UNCHANGED <<xlim, ylim, figure_dpi, previous_dpi, size_inches,
                   drag_position, rectangle_select_origin>>

\* Diagram.save.  written: whether the file can be written.  For a box of
\* no area the matplotlib in use either writes an image or raises ValueError.
\* Reading save_rectangle before anything assigned it is AttributeError.
\* Nothing of the diagram is assigned; an exception leaves through
\* on_save_button_click, which catches none.  savefig records the call.
save(filepath, written) ==
    /\ IF save_rectangle = Unset
       THEN /\ savefig' = [outcome |-> "AttributeError"]
            /\ Escapes
       ELSE LET bbox_inches == IF save_rectangle # None
                               THEN BboxInches(save_rectangle, status'.dpi)
                               ELSE None
                io == IF written THEN "written" ELSE "OSError"
            IN  \E outcome \in (IF save_rectangle # None /\ ZeroSize(save_rectangle)
                                THEN {"ValueError", io} ELSE {io}) :
                /\ savefig' = [outcome |-> outcome, filepath |-> filepath,
                               dpi |-> status'.save_dpi,
                               bbox_inches |-> bbox_inches]
                /\ IF outcome = "written" THEN UNCHANGED session ELSE Escapes
    /\ UNCHANGED <<xlim, ylim, figure_dpi, previous_dpi, size_inches,
                   drag_position, rectangle_select_interaction,
                   rectangle_select_origin, save_rectangle>>

\* The "Save image" button.  A filepath of "" is the dialog cancelled.
on_save_button_click(save_dpi_text, filepath, written) ==
    /\ session = "running"
    /\ LET parsed == float(save_dpi_text)
       IN  IF parsed[1] # "ok"
           THEN /\ save_error_label' = "Save DPI must be a number."
                /\ savefig' = NotCalled
                /\ UNCHANGED <<status, session, xlim, ylim, figure_dpi, previous_dpi,
                               size_inches, drag_position,
                               rectangle_select_interaction,
                               rectangle_select_origin, save_rectangle>>
           ELSE /\ save_error_label' = ""
                /\ status' = [status EXCEPT !.save_dpi = parsed[2]]
                /\ IF filepath = ""
                   THEN /\ savefig' = NotCalled
                        /\ UNCHANGED <<session, xlim, ylim, figure_dpi, previous_dpi,
                                       size_inches, drag_position,
                                       rectangle_select_interaction,
                                       rectangle_select_origin, save_rectangle>>
                   ELSE save(filepath, written)
    /\ UNCHANGED <<error_label, last_refresh_course, save_rectangle_dpi,
                   n_view_ops, n_resizes>>

(***************************************************************************)
(* The events, in any order, with their inputs.                            *)
(***************************************************************************)
MaxViewOps == 1
MaxResizes == 1

PressPixels == {<<100, 100>>, <<-50, 700>>}
ReleasePixels == {<<100, 100>>, <<300, 400>>, <<900, -20>>}
MotionPixels == {<<300, 400>>}
ScrollPixels == {<<100, 100>>}
ScrollSteps == {1, -1}
Keys == {"up", "down", "a"}
CanvasSizes == {<<800, 600>>}
DpiTexts == {"200"}
SaveDpiTexts == {"200", "abc"}
Filepaths == {"", "out.png"}
ReadOutcomes == {TRUE}

CourseChange ==
    \E text \in ComboTexts : on_course_code_change(text) /\ UNCHANGED trip

Update ==
    \E dpi_text \in DpiTexts, read_ok \in ReadOutcomes :
        /\ update_diagram([DefaultTexts EXCEPT !.dpi = dpi_text], read_ok)
        /\ UNCHANGED trip

ButtonPress ==
    \E p \in PressPixels : button_press_event(p[1], p[2]) /\ UNCHANGED trip

ButtonRelease ==
    \E p \in ReleasePixels : button_release_event(p[1], p[2]) /\ UNCHANGED trip

Motion ==
    \E p \in MotionPixels :
        /\ drag_position # None => n_view_ops < MaxViewOps
        /\ motion_notify_event(p[1], p[2])
        /\ UNCHANGED trip

Scroll ==
    \E p \in ScrollPixels, step \in ScrollSteps :
        /\ n_view_ops < MaxViewOps
        /\ scroll_event(p[1], p[2], step)
        /\ UNCHANGED trip

KeyPress ==
    \E key \in Keys :
        /\ key \in {"up", "down"} => n_view_ops < MaxViewOps
        /\ key_press_event(key)
        /\ UNCHANGED trip

Resize ==
    \E size \in CanvasSizes :
        /\ n_resizes < MaxResizes
        /\ resize_event(size[1], size[2])
        /\ UNCHANGED trip

Activate == ActivateRectangleSelect /\ UNCHANGED trip

Save ==
    \E save_dpi_text \in SaveDpiTexts, filepath \in Filepaths, written \in BOOLEAN :
        /\ on_save_button_click(save_dpi_text, filepath, written)
        /\ UNCHANGED trip

Next ==
    \/ CourseChange
    \/ Update
    \/ ButtonPress
    \/ ButtonRelease
    \/ Motion
    \/ Scroll
    \/ KeyPress
    \/ Resize
    \/ Activate
    \/ Save

Spec == Init /\ [][Next]_vars

(***************************************************************************)
(* Zooming in and then out at one anchor, from any window.                 *)
(***************************************************************************)
TripXlims == {<<I(0), I(1)>>, <<I(-110), I(110)>>, <<Q(-7, 3), Q(5, 2)>>}
TripYlims == {<<I(0), I(1)>>, <<I(-250), I(50)>>, <<Q(1, 7), Q(9, 4)>>}
TripPixels == {<<100, 100>>, <<0, 0>>, <<-50, 700>>, <<320, 240>>}
TripKinds == {"scroll", "key"}

ZoomInit ==
    /\ status = InitStatus
    /\ error_label = ""
    /\ save_error_label = ""
    /\ xlim \in TripXlims
    /\ ylim \in TripYlims
    /\ figure_dpi = I(100)
    /\ previous_dpi = I(100)
    /\ size_inches = <<Q(64, 10), Q(48, 10)>>
    /\ drag_position = None
    /\ rectangle_select_interaction = NoneStr
    /\ rectangle_select_origin = Unset
    /\ save_rectangle = Unset
    /\ session = "running"
    /\ savefig = NotCalled
    /\ last_refresh_course = NoneStr
    /\ save_rectangle_dpi = None
    /\ n_view_ops = 0
    /\ n_resizes = 0
    /\ \E kind \in TripKinds, p \in TripPixels :
          /\ kind = "key" => p = <<canvas_width \div 2, canvas_height \div 2>>
          /\ trip = [phase |-> "start", kind |-> kind, p |-> p,
                     xlim |-> xlim, ylim |-> ylim,
                     anchor |-> convert_coords_canvas_to_game(I(p[1]), I(p[2]))]

TripIn ==
    /\ trip.phase = "start"
    /\ IF trip.kind = "scroll" THEN scroll_event(trip.p[1], trip.p[2], 1)
       ELSE key_press_event("up")
    /\ trip' = [trip EXCEPT
            !.phase = "in",
            !.anchor = convert_coords_canvas_to_game(I(trip.p[1]), I(trip.p[2]))]

TripOut ==
    /\ trip.phase = "in"
    /\ IF trip.kind = "scroll" THEN scroll_event(trip.p[1], trip.p[2], -1)
       ELSE key_press_event("down")
    /\ trip' = [trip EXCEPT
            !.phase = "out",
            !.anchor = convert_coords_canvas_to_game(I(trip.p[1]), I(trip.p[2]))]

ZoomNext ==
    \/ TripIn
    \/ TripOut

ZoomSpec == ZoomInit /\ [][ZoomNext]_vars

(***************************************************************************)
(* Dragging from p0 to p2, directly and by way of p1, from any window.     *)
(* The direct drag is made first; the window and the drag position are     *)
(* then put back as they were at the press and the drag is made in two     *)
(* moves.                                                                  *)
(***************************************************************************)
DragStarts == {<<100, 100>>, <<320, 240>>}
DragVias == {<<300, 400>>, <<0, 0>>, <<-50, 700>>}
DragEnds == {<<100, 100>>, <<640, 480>>, <<17, -3>>}

PanInit ==
    /\ status = InitStatus
    /\ error_label = ""
    /\ save_error_label = ""
    /\ xlim \in TripXlims
    /\ ylim \in TripYlims
    /\ figure_dpi = I(100)
    /\ previous_dpi = I(100)
    /\ size_inches = <<Q(64, 10), Q(48, 10)>>
    /\ drag_position \in DragStarts
    /\ rectangle_select_interaction = NoneStr
    /\ rectangle_select_origin = Unset
    /\ save_rectangle = None
    /\ session = "running"
    /\ savefig = NotCalled
    /\ last_refresh_course = NoneStr
    /\ save_rectangle_dpi = None
    /\ n_view_ops = 0
    /\ n_resizes = 0
    /\ \E p1 \in DragVias, p2 \in DragEnds :
          trip = [phase |-> "pressed", p0 |-> drag_position, p1 |-> p1, p2 |-> p2,
                  xlim |-> xlim, ylim |-> ylim, direct |-> None,
                  anchor |-> convert_coords_canvas_to_game(
                                 I(drag_position[1]), I(drag_position[2]))]

DragDirect ==
    /\ trip.phase = "pressed"
    /\ motion_notify_event(trip.p2[1], trip.p2[2])
    /\ trip' = [trip EXCEPT !.phase = "direct"]

DragAgain ==
    /\ trip.phase = "direct"
    /\ xlim' = trip.xlim
    /\ ylim' = trip.ylim
    /\ drag_position' = trip.p0
    /\ trip' = [trip EXCEPT !.phase = "again", !.direct = <<xlim, ylim>>]
    /\ UNCHANGED <<status, error_label, save_error_label, figure_dpi,
                   previous_dpi, size_inches, rectangle_select_interaction,
                   rectangle_select_origin, save_rectangle, session, savefig,
                   last_refresh_course, save_rectangle_dpi, n_view_ops,
                   n_resizes>>

DragFirst ==
    /\ trip.phase = "again"
    /\ motion_notify_event(trip.p1[1], trip.p1[2])
    /\ trip' = [trip EXCEPT !.phase = "first"]

DragSecond ==
    /\ trip.phase = "first"
    /\ motion_notify_event(trip.p2[1], trip.p2[2])
    /\ trip' = [trip EXCEPT !.phase = "second"]

PanNext ==
    \/ DragDirect
    \/ DragAgain
    \/ DragFirst
    \/ DragSecond

PanSpec == PanInit /\ [][PanNext]_vars

(***************************************************************************)
(* Selecting courses, updating the diagram with several texts and resizing *)
(* the canvas.  trip records what the last refresh drew and fitted, or the *)
(* window the last resize found.                                           *)
(***************************************************************************)
MaxFitResizes == 1

FitCourses == {"A", "B", "C", "D"}
FitSizes == {<<400, 600>>, <<900, 300>>}
FitTexts ==
    {DefaultTexts,
     [DefaultTexts EXCEPT !.number_distance = "-75"],
     [DefaultTexts EXCEPT !.number_distance = "0", !.hidden_numbers = <<"0">>],
     [DefaultTexts EXCEPT !.hidden_checkpoints = <<"1">>],
     [DefaultTexts EXCEPT !.hidden_checkpoints = <<"0", "-", "1">>]}

NoFit == [kind |-> "none", xlim |-> <<I(0), I(1)>>, ylim |-> <<I(0), I(1)>>]

FitInit ==
    /\ status = InitStatus
    /\ error_label = ""
    /\ save_error_label = ""
    /\ InitDiagram
    /\ session = "running"
    /\ savefig = NotCalled
    /\ last_refresh_course = NoneStr
    /\ save_rectangle_dpi = None
    /\ n_view_ops = 0
    /\ n_resizes = 0
    /\ trip = [phase |-> "start", fit |-> NoFit, extent |-> EmptyExtent,
               canvas |-> <<canvas_width, canvas_height>>,
               before |-> <<xlim, ylim>>, changed |-> FALSE]

FitSelect ==
    \E text \in FitCourses :
        /\ on_course_code_change(text)
        /\ trip' = [trip EXCEPT !.phase = "selected"]

\* What a refresh with the status st draws and fits.
FitTrip(st, size) ==
    IF st.course_code = NoneStr \/ st.checkpoints = None
    THEN [trip EXCEPT !.phase = "idle"]
    ELSE [phase |-> "updated", fit |-> SetupFigure(st, size),
          extent |-> DrawnExtent(st), canvas |-> CanvasOf(st, size),
          before |-> <<xlim, ylim>>, changed |-> st.course_code_changed]

FitTripOf(st) == FitTrip(st, size_inches')

FitUpdate ==
    \E texts \in FitTexts :
        /\ update_diagram(texts, TRUE)
        /\ trip' = FitTripOf(UpdateRead(update_diagram_fields(texts), TRUE).st)

FitResize ==
    \E size \in FitSizes :
        /\ n_resizes < MaxFitResizes
        /\ resize_event(size[1], size[2])
        /\ trip' = [trip EXCEPT !.phase = "resized", !.canvas = size,
                                !.before = <<xlim, ylim>>]

FitNext ==
    \/ FitSelect
    \/ FitUpdate
    \/ FitResize

FitSpec == FitInit /\ [][FitNext]_vars

(***************************************************************************)
(* Two presses of "Update diagram" with valid and invalid texts in the     *)
(* line edits, no course being selected.  trip records the texts and the   *)
(* status the update found.                                                *)
(***************************************************************************)
FieldTexts ==
    [number_distance : {"-75", "0", "abc"},
     number_size : {"10", ""},
     extended_checkpoints : {<<"1">>, <<"1", "-">>},
     extend_length : {"100", "x"},
     hidden_checkpoints : {<<"0", "-", "1">>, <<"a">>},
     hidden_numbers : {<<" ", "1", ",", "0">>, <<"1", ",">>},
     dpi : {"200", "1e"}]

FieldsInit ==
    /\ status = InitStatus
    /\ error_label = ""
    /\ save_error_label = ""
    /\ InitDiagram
    /\ session = "running"
    /\ savefig = NotCalled
    /\ last_refresh_course = NoneStr
    /\ save_rectangle_dpi = None
    /\ n_view_ops = 0
    /\ n_resizes = 0
    /\ trip = [phase |-> "start", texts |-> DefaultTexts, before |-> status]

FieldsFirst ==
    \E texts \in FieldTexts :
        /\ trip.phase = "start"
        /\ update_diagram(texts, TRUE)
        /\ trip' = [phase |-> "first", texts |-> texts, before |-> status]

FieldsSecond ==
    \E texts \in FieldTexts :
        /\ trip.phase = "first"
        /\ update_diagram(texts, TRUE)
        /\ trip' = [phase |-> "second", texts |-> texts, before |-> status]

FieldsNext ==
    \/ FieldsFirst
    \/ FieldsSecond

FieldsSpec == FieldsInit /\ [][FieldsNext]_vars

(***************************************************************************)
(* draw_checkpoints on one status: a course, hidden and extended           *)
(* checkpoints, a number distance, and a data path and crossings or none.  *)
(* trip records what it plots and the extent it leaves.                    *)
(***************************************************************************)
ExtentCourses == {"A", "D"}
ExtentHidden == {{}, {1}, {0, 1}}
ExtentHiddenNumbers == {{}, {0}}
ExtentExtended == {{}, {0}, {0, 1}}
ExtentDistances == {"75", "-75", "0"}
ExtentPaths ==
    {None,
     <<"list", <<[x |-> I(5000), y |-> I(0), z |-> I(0)],
                 [x |-> I(0), y |-> I(900), z |-> I(-7000)]>>>>}
ExtentCrossings ==
    {None,
     <<"list", <<[p1 |-> [x |-> I(-6000), y |-> I(0), z |-> I(10)],
                  p2 |-> [x |-> I(-10), y |-> I(0), z |-> I(8000)],
                  success |-> "Y"]>>>>}

NoScene == [extent |-> EmptyExtent, plotted |-> {}, labels |-> {}]

ExtentInit ==
    /\ \E course \in ExtentCourses, hidden_checkpoints \in ExtentHidden,
          hidden_numbers \in ExtentHiddenNumbers,
          extended_checkpoints \in ExtentExtended,
          distance \in ExtentDistances, path \in ExtentPaths,
          crossings \in ExtentCrossings :
            status = [InitStatus EXCEPT
                !.course_code = course,
                !.checkpoints = <<"list", LoadedCheckpoints(course)>>,
                !.hidden_checkpoints = hidden_checkpoints,
                !.hidden_numbers = hidden_numbers,
                !.extended_checkpoints = extended_checkpoints,
                !.number_distance = float(distance)[2],
                !.data_path_points = path,
                !.crossing_data = crossings]
    /\ error_label = ""
    /\ save_error_label = ""
    /\ InitDiagram
    /\ session = "running"
    /\ savefig = NotCalled
    /\ last_refresh_course = NoneStr
    /\ save_rectangle_dpi = None
    /\ n_view_ops = 0
    /\ n_resizes = 0
    /\ trip = [phase |-> "start", scene |-> NoScene]

\* draw_checkpoints as refresh calls it.
ExtentDraw ==
    /\ trip.phase = "start"
    /\ trip' = [phase |-> "drawn",
                scene |-> [extent |-> DrawnExtent(status),
                           plotted |-> PlottedPoints(status),
                           labels |-> PlottedLabels(status)]]
    /\ UNCHANGED <<status, error_label, save_error_label, xlim, ylim,
                   figure_dpi, previous_dpi, size_inches, drag_position,
                   rectangle_select_interaction, rectangle_select_origin,
                   save_rectangle, session, savefig, last_refresh_course,
                   save_rectangle_dpi, n_view_ops, n_resizes>>

ExtentNext == ExtentDraw

ExtentSpec == ExtentInit /\ [][ExtentNext]_vars

(***************************************************************************)
(* Updates with several display DPIs, courses and canvas sizes.  trip      *)
(* records the figure's size and dpi that the last update found.           *)
(***************************************************************************)
MaxDpiResizes == 1

DpiCourses == {"A", "B"}
DpiChangeTexts == {"100", "200", "75"}
DpiSizes == {<<800, 600>>, <<480, 640>>}

DpiInit ==
    /\ status = InitStatus
    /\ error_label = ""
    /\ save_error_label = ""
    /\ InitDiagram
    /\ session = "running"
    /\ savefig = NotCalled
    /\ last_refresh_course = NoneStr
    /\ save_rectangle_dpi = None
    /\ n_view_ops = 0
    /\ n_resizes = 0
    /\ trip = [phase |-> "start", canvas |-> <<canvas_width, canvas_height>>,
               size |-> size_inches, previous_dpi |-> previous_dpi,
               fitted |-> <<canvas_width, canvas_height>>]

DpiSelect ==
    \E text \in DpiCourses :
        /\ on_course_code_change(text)
        /\ trip' = [trip EXCEPT !.phase = "selected"]

\* What the update whose fields are read into st finds, and the canvas size
\* its setup_figure fits the window to.
DpiTrip(st) ==
    [phase |-> IF st.course_code = NoneStr THEN "idle" ELSE "updated",
     canvas |-> <<canvas_width, canvas_height>>,
     size |-> size_inches, previous_dpi |-> previous_dpi,
     fitted |-> CanvasOf(st, size_inches')]

DpiUpdate ==
    \E dpi_text \in DpiChangeTexts :
        /\ update_diagram([DefaultTexts EXCEPT !.dpi = dpi_text], TRUE)
        /\ trip' = DpiTrip(update_diagram_fields(
                               [DefaultTexts EXCEPT !.dpi = dpi_text]).st)

DpiResize ==
    \E size \in DpiSizes :
        /\ n_resizes < MaxDpiResizes
        /\ resize_event(size[1], size[2])
        /\ trip' = [trip EXCEPT !.phase = "resized"]

DpiNext ==
    \/ DpiSelect
    \/ DpiUpdate
    \/ DpiResize

DpiSpec == DpiInit /\ [][DpiNext]_vars

(***************************************************************************)
(* Courses selected and updates requested in any order, the course's file  *)
(* opening or not at each update.  trip records the checkpoint list the    *)
(* last update handed to refresh and whether refresh returned.             *)
(***************************************************************************)
MaxReadResizes == 1

ReadCourses == {"A", "B"}
ReadDpiTexts == {"100", "200"}
ReadSizes == {<<800, 600>>, <<400, 600>>}

ReadInit ==
    /\ status = InitStatus
    /\ error_label = ""
    /\ save_error_label = ""
    /\ InitDiagram
    /\ session = "running"
    /\ savefig = NotCalled
    /\ last_refresh_course = NoneStr
    /\ save_rectangle_dpi = None
    /\ n_view_ops = 0
    /\ n_resizes = 0
    /\ trip = [phase |-> "start", drawn |-> None]

ReadSelect ==
    \E text \in ReadCourses \cup {"Select course"} :
        /\ on_course_code_change(text)
        /\ trip' = [trip EXCEPT !.phase = "selected"]

\* The update whose refresh gets the status st: refresh returns at once with
\* no course, raises on a list that is None (or in setup_figure), and
\* otherwise draws st.checkpoints and completes.
ReadTrip(st) ==
    [phase |-> IF st.course_code = NoneStr THEN "idle"
               ELSE IF st.checkpoints = None THEN "raised"
               ELSE IF SetupFigure(st, size_inches').kind # "ok" THEN "raised"
               ELSE "updated",
     drawn |-> st.checkpoints]

ReadUpdate ==
    \E dpi_text \in ReadDpiTexts, read_ok \in BOOLEAN :
        /\ update_diagram([DefaultTexts EXCEPT !.dpi = dpi_text], read_ok)
        /\ trip' = ReadTrip(UpdateRead(update_diagram_fields(
                                [DefaultTexts EXCEPT !.dpi = dpi_text]),
                            read_ok).st)

ReadResize ==
    \E size \in ReadSizes :
        /\ n_resizes < MaxReadResizes
        /\ resize_event(size[1], size[2])
        /\ trip' = [trip EXCEPT !.phase = "resized"]

ReadNext ==
    \/ ReadSelect
    \/ ReadUpdate
    \/ ReadResize

ReadSpec == ReadInit /\ [][ReadNext]_vars

(***************************************************************************)
(* The diagram of course A, drawn on a canvas that keeps its size, dragged *)
(* and zoomed several times.                                               *)
(***************************************************************************)
MaxSeqOps == 3

ViewPixels == {<<100, 100>>, <<500, 40>>}
ViewSteps == {1, -1}
ViewKeys == {"up", "down"}

ViewSelect == on_course_code_change("A") /\ UNCHANGED trip

ViewUpdate == update_diagram(DefaultTexts, TRUE) /\ UNCHANGED trip

ViewPress ==
    /\ drag_position = None
    /\ button_press_event(320, 240)
    /\ UNCHANGED trip

ViewRelease ==
    /\ drag_position # None
    /\ button_release_event(drag_position[1], drag_position[2])
    /\ UNCHANGED trip

ViewMotion ==
    \E p \in ViewPixels :
        /\ drag_position # None
        /\ n_view_ops < MaxSeqOps
        /\ motion_notify_event(p[1], p[2])
        /\ UNCHANGED trip

ViewScroll ==
    \E p \in ViewPixels, step \in ViewSteps :
        /\ n_view_ops < MaxSeqOps
        /\ scroll_event(p[1], p[2], step)
        /\ UNCHANGED trip

ViewKey ==
    \E key \in ViewKeys :
        /\ n_view_ops < MaxSeqOps
        /\ key_press_event(key)
        /\ UNCHANGED trip

ViewNext ==
    \/ ViewSelect
    \/ ViewUpdate
    \/ ViewPress
    \/ ViewRelease
    \/ ViewMotion
    \/ ViewScroll
    \/ ViewKey

ViewSpec == Init /\ [][ViewNext]_vars

(***************************************************************************)
(* Properties.                                                             *)
(***************************************************************************)
\* An update request whose refresh rebuilt the scene and returned.
Refreshed ==
    /\ Update
    /\ status.course_code # NoneStr
    /\ ~status'.course_code_changed
    /\ last_refresh_course' = status.course_code

\* C1: a refresh keeps the window it had before if and only if the selected
\* course is the one of the previous refresh; otherwise it refits the window.
C1_KeepsWindowIffSameCourse ==
    [][Refreshed => ((xlim' = xlim /\ ylim' = ylim)
                        <=> status.course_code = last_refresh_course)]_vars

\* C2 as stated: a committed rectangle changes only with an activate, a scene
\* rebuild or a resize; pointer-down, pointer-move, pointer-up, scroll, key
\* and save leave it.
C2_RetainedUntilActivateRebuildResize ==
    [][(IsRectangle(save_rectangle) /\ save_rectangle' # save_rectangle)
          => (Activate \/ Refreshed \/ Resize)]_vars

\* C2: a committed rectangle stays stored until the next activate, pointer-down,
\* scene rebuild or resize; pointer-move, pointer-up, scroll, key, course
\* selection, an update with no course and save leave it as it is.
C2_RetainedUntilActivatePressRebuildResize ==
    [][(IsRectangle(save_rectangle) /\ save_rectangle' # save_rectangle)
          => (/\ Activate \/ ButtonPress \/ Refreshed \/ Resize
              /\ save_rectangle' = None)]_vars

\* A save went through with the committed rectangle, after the window moved.
C2_Witness ==
    /\ IsRectangle(save_rectangle)
    /\ savefig.outcome = "written"
    /\ n_view_ops > 0

\* C3: both corners of a committed rectangle lie within
\* [0, width] x [0, height] of the canvas.
C3_CornersWithinCanvas ==
    IsRectangle(save_rectangle) =>
        \A i \in 1..2 :
            /\ save_rectangle[i][1] >= 0 /\ save_rectangle[i][1] <= canvas_width
            /\ save_rectangle[i][2] >= 0 /\ save_rectangle[i][2] <= canvas_height

\* The handler that just ran called Diagram.save and got past its first line.
Saved == savefig.outcome \notin {"not called", "AttributeError"}

\* C4: save with a committed rectangle of zero width or height exports the
\* whole figure (no bounding box) and raises nothing for the rectangle.
C4_ZeroSizeIsNoSelection ==
    (Saved /\ IsRectangle(save_rectangle) /\ ZeroSize(save_rectangle))
        => (savefig.bbox_inches = None /\ savefig.outcome # "ValueError")

\* C5: save with a committed rectangle of non-zero size exports the box of its
\* corners divided by the dpi the figure had when the rectangle was drawn.
C5_BoxInDrawnDpi ==
    (Saved /\ IsRectangle(save_rectangle) /\ ~ZeroSize(save_rectangle))
        => savefig.bbox_inches = BboxInches(save_rectangle, save_rectangle_dpi)

\* C6: save with no committed rectangle, in any state including the one before
\* any refresh, activate or pointer event, exports the whole figure at save_dpi
\* and does not fail for want of a rectangle.
C6_NoSelectionSavesWholeFigure ==
    (savefig.outcome # "not called" /\ ~IsRectangle(save_rectangle))
        => (/\ savefig.outcome # "AttributeError"
            /\ savefig.bbox_inches = None
            /\ savefig.dpi = status.save_dpi)

\* C7: the save button leaves the window, the state of the rectangle tool and
\* the stored rectangle as they were, with or without a rectangle.
C7_SaveLeavesViewAndSelection ==
    [][Save => (/\ xlim' = xlim
                /\ ylim' = ylim
                /\ rectangle_select_interaction' = rectangle_select_interaction
                /\ rectangle_select_origin' = rectangle_select_origin
                /\ save_rectangle' = save_rectangle)]_vars

\* A save of a rectangle went through, in a window that was panned or zoomed.
C7_Witness ==
    /\ Saved
    /\ savefig.bbox_inches # None
    /\ xlim # <<I(0), I(1)>>
    /\ status.course_code # NoneStr

\* C8: when writing the image fails with an I/O error, the save error label
\* reports it and the session keeps running.
C8_IOErrorReported ==
    savefig.outcome = "OSError"
        => (save_error_label # "" /\ session = "running")

\* C9: a press while the tool is ready stores the pressed pixel as the origin
\* and starts drawing; a press while drawing cancels: the tool is inactive and
\* no rectangle is stored.
C9_PressWhileReadyOrDrawing ==
    [][\A p \in PressPixels :
         button_press_event(p[1], p[2]) =>
            /\ rectangle_select_interaction = "ready" =>
                  /\ rectangle_select_origin' = p
                  /\ rectangle_select_interaction' = "drawing"
            /\ rectangle_select_interaction = "drawing" =>
                  /\ rectangle_select_interaction' = NoneStr
                  /\ save_rectangle' = None]_vars

\* A press off the canvas, after a resize, started a rectangle.
C9_Witness ==
    /\ rectangle_select_interaction = "drawing"
    /\ rectangle_select_origin = <<-50, 700>>
    /\ n_resizes = 1

\* C10: from any window, zooming in and then out at one anchor pixel gives the
\* window back (in exact arithmetic).
C10_ZoomRoundTrip ==
    trip.phase = "out" => (xlim = trip.xlim /\ ylim = trip.ylim)

\* The round trip was made at an anchor off the canvas, in an uneven window.
C10_Witness ==
    /\ trip.phase = "out"
    /\ trip.p = <<-50, 700>>
    /\ trip.xlim = <<Q(-7, 3), Q(5, 2)>>
    /\ xlim = trip.xlim

\* C11: the game coordinates under the anchor pixel are the same before and
\* after a zoom, in or out, anchored at that pixel (trip.anchor holds the
\* coordinates the pixel had before the zoom that just ran).
C11_ZoomKeepsAnchor ==
    trip.phase \in {"in", "out"} =>
        convert_coords_canvas_to_game(I(trip.p[1]), I(trip.p[2])) = trip.anchor

\* A zoom in was made at a corner of the canvas, and the window changed.
C11_Witness ==
    /\ trip.phase = "in"
    /\ trip.kind = "scroll"
    /\ trip.p = <<0, 0>>
    /\ xlim # trip.xlim

\* C12: pan(a, b) followed by pan(c, d) leaves the window that the single
\* pan(a + c, b + d) leaves from the same original window.
C12_PanIsAdditive ==
    trip.phase = "second" => <<xlim, ylim>> = trip.direct

\* The two moves went by way of a pixel off the canvas and moved the window.
C12_Witness ==
    /\ trip.phase = "second"
    /\ trip.p1 = <<-50, 700>>
    /\ trip.p2 = <<17, -3>>
    /\ xlim # trip.xlim
    /\ <<xlim, ylim>> = trip.direct

\* C13: during a drag the content follows the pointer: the pixel the pointer
\* is on shows the game coordinates that were under the pointer at the press,
\* and one pan of (dx, dy) moves the window by -dx*(hrange/width) and
\* -dy*(vrange/height).
C13_ContentFollowsPointer ==
    /\ trip.phase \in {"direct", "first", "second"} =>
          convert_coords_canvas_to_game(I(drag_position[1]), I(drag_position[2]))
            = trip.anchor
    /\ trip.phase = "direct" =>
          /\ xlim[1] = QSub(trip.xlim[1],
                            QMul(I(trip.p2[1] - trip.p0[1]),
                                 QDiv(QSub(trip.xlim[2], trip.xlim[1]),
                                      I(canvas_width))))
          /\ ylim[1] = QSub(trip.ylim[1],
                            QMul(I(trip.p2[2] - trip.p0[2]),
                                 QDiv(QSub(trip.ylim[2], trip.ylim[1]),
                                      I(canvas_height))))
          /\ QSub(xlim[2], xlim[1]) = QSub(trip.xlim[2], trip.xlim[1])
          /\ QSub(ylim[2], ylim[1]) = QSub(trip.ylim[2], trip.ylim[1])

\* A drag to the right and up was made in one move; the window moved left.
C13_Witness ==
    /\ trip.phase = "direct"
    /\ trip.p0 = <<100, 100>>
    /\ trip.p2 = <<640, 480>>
    /\ QLt(xlim[1], trip.xlim[1])
    /\ QLt(ylim[1], trip.ylim[1])

\* The region setup_figure fits to: the extent with a tenth of its range added
\* on every side.
WithMargin(ext) ==
    <<QSub(ext[1], QDiv(QSub(ext[2], ext[1]), I(10))),
      QAdd(ext[2], QDiv(QSub(ext[2], ext[1]), I(10))),
      QSub(ext[3], QDiv(QSub(ext[4], ext[3]), I(10))),
      QAdd(ext[4], QDiv(QSub(ext[4], ext[3]), I(10)))>>

RegionInside(region, hlim, vlim) ==
    /\ QLe(hlim[1], region[1]) /\ QLe(region[2], hlim[2])
    /\ QLe(vlim[1], region[3]) /\ QLe(region[4], vlim[2])

HasAspect(hlim, vlim, canvas) ==
    /\ QLt(vlim[1], vlim[2])
    /\ QDiv(QSub(hlim[2], hlim[1]), QSub(vlim[2], vlim[1]))
         = QDiv(I(canvas[1]), I(canvas[2]))

\* A data extent holding data whose vertical range is not zero.
Fittable(ext) == IsFinite(ext[1]) /\ QLt(ext[3], ext[4])

\* C14: the limits setup_figure computes for a data extent have the canvas's
\* aspect ratio and contain the extent with its margin of 0.1, and they are the
\* window after the refresh of a newly selected course; after a resize to
\* (w, h) the window has the aspect ratio w/h and contains the window the
\* resize found.
C14_AspectFit ==
    /\ (trip.phase = "updated" /\ Fittable(trip.extent)) =>
          /\ trip.fit.kind = "ok"
          /\ HasAspect(trip.fit.xlim, trip.fit.ylim, trip.canvas)
          /\ RegionInside(WithMargin(trip.extent), trip.fit.xlim, trip.fit.ylim)
          /\ trip.changed => <<xlim, ylim>> = <<trip.fit.xlim, trip.fit.ylim>>
    /\ trip.phase = "resized" =>
          /\ HasAspect(xlim, ylim, trip.canvas)
          /\ RegionInside(<<trip.before[1][1], trip.before[1][2],
                            trip.before[2][1], trip.before[2][2]>>, xlim, ylim)

\* A resize to 400 x 600 of the window fitted to course A: the window grows
\* downwards and upwards only.
C14_Witness ==
    /\ trip.phase = "resized"
    /\ trip.canvas = <<400, 600>>
    /\ last_refresh_course = "A"
    /\ trip.before[1] = trip.fit.xlim
    /\ trip.before[2] = trip.fit.ylim
    /\ trip.fit.kind = "ok"
    /\ xlim = trip.before[1]
    /\ QLt(ylim[1], trip.before[2][1])

\* C15: a refresh whose data extent has zero range on one axis or on both is
\* fitted without a division by zero, to limits with hmax > hmin and
\* vmax > vmin.
C15_DegenerateExtentFits ==
    (/\ trip.phase = "updated"
     /\ IsFinite(trip.extent[1])
     /\ (trip.extent[1] = trip.extent[2] \/ trip.extent[3] = trip.extent[4])) =>
        /\ trip.fit.kind # "ZeroDivisionError"
        /\ QLt(trip.fit.xlim[1], trip.fit.xlim[2])
        /\ QLt(trip.fit.ylim[1], trip.fit.ylim[2])

FiniteWindow ==
    /\ IsFinite(xlim[1]) /\ IsFinite(xlim[2]) /\ QLt(xlim[1], xlim[2])
    /\ IsFinite(ylim[1]) /\ IsFinite(ylim[2]) /\ QLt(ylim[1], ylim[2])

\* C16: a refresh that draws no checkpoint leaves the sentinel extent, returns
\* (update_diagram runs to its last line and the program goes on), and leaves
\* the window it found or a finite default window.
C16_NoDataIsHandled ==
    (/\ trip.phase = "updated"
     /\ \A i \in 1..Len(status.checkpoints[2]) :
            status.checkpoints[2][i].checkpoint \in status.hidden_checkpoints) =>
        /\ trip.extent = EmptyExtent
        /\ session = "running"
        /\ ~status.course_code_changed
        /\ <<xlim, ylim>> = trip.before \/ FiniteWindow

WindowChanges == xlim' # xlim \/ ylim' # ylim

\* C17: the window always has hmax > hmin and vmax > vmin, and a step that
\* changes it is a drag (pan), a scroll or key press (zoom), an update
\* (refresh) or a resize, never a pointer press or release, an activation of
\* the select tool, a pointer move without a drag, a course selection or a
\* save.
C17_WindowPositiveAndOwned ==
    /\ [](QLt(xlim[1], xlim[2]) /\ QLt(ylim[1], ylim[2]))
    /\ [][WindowChanges =>
            /\ \/ Motion /\ drag_position # None
               \/ Scroll
               \/ KeyPress
               \/ Update
               \/ Resize
            /\ ~(ButtonPress \/ ButtonRelease \/ Activate \/ Save \/ CourseChange)]_vars

\* A file has been written while the window is one that a zoom left and a
\* rectangle is selected.
C17_Witness ==
    /\ savefig.outcome = "written"
    /\ n_view_ops > 0
    /\ IsRectangle(save_rectangle)
    /\ xlim # <<I(0), I(1)>>
    /\ QLt(xlim[1], xlim[2])
    /\ QLt(ylim[1], ylim[2])

\* The field has the value of its text, or the value the update found when
\* the text is invalid.
FieldFollows(field, parsed) ==
    status[field] = IF parsed[1] = "ok" THEN parsed[2] ELSE trip.before[field]

AllValid(texts) ==
    /\ float(texts.number_distance)[1] = "ok"
    /\ float(texts.number_size)[1] = "ok"
    /\ parse_checkpoint_set(texts.extended_checkpoints)[1] = "ok"
    /\ float(texts.extend_length)[1] = "ok"
    /\ parse_checkpoint_set(texts.hidden_checkpoints)[1] = "ok"
    /\ parse_checkpoint_set(texts.hidden_numbers)[1] = "ok"
    /\ float(texts.dpi)[1] = "ok"

\* C18: after an update each of the seven fields has the value parsed from its
\* own text, or, its text being invalid, the value it had before the update,
\* whatever the other texts are; the error label holds a message exactly when
\* some text is invalid.
C18_FieldsParsedIndependently ==
    trip.phase \in {"first", "second"} =>
        /\ FieldFollows("number_distance", float(trip.texts.number_distance))
        /\ FieldFollows("number_size", float(trip.texts.number_size))
        /\ FieldFollows("extended_checkpoints",
                        parse_checkpoint_set(trip.texts.extended_checkpoints))
        /\ FieldFollows("extend_length", float(trip.texts.extend_length))
        /\ FieldFollows("hidden_checkpoints",
                        parse_checkpoint_set(trip.texts.hidden_checkpoints))
        /\ FieldFollows("hidden_numbers",
                        parse_checkpoint_set(trip.texts.hidden_numbers))
        /\ FieldFollows("dpi", float(trip.texts.dpi))
        /\ (error_label = "") = AllValid(trip.texts)

\* A second update with an invalid number distance and hidden checkpoints and
\* a valid DPI and hidden numbers: the first two keep what the first update
\* parsed, the last two take their new values.
C18_Witness ==
    /\ trip.phase = "second"
    /\ trip.texts.number_distance = "abc"
    /\ trip.before.number_distance = I(-75)
    /\ status.number_distance = I(-75)
    /\ trip.texts.hidden_checkpoints = <<"a">>
    /\ status.hidden_checkpoints = {0, 1}
    /\ trip.before.dpi = I(100)
    /\ status.dpi = I(200)
    /\ trip.before.hidden_numbers = {}
    /\ status.hidden_numbers = {0, 1}
    /\ error_label = "Hidden checkpoints are not in the correct format."

\* The three points of the line of every checkpoint that is not hidden, and
\* the position of its number when that is not hidden.
LinesAndNumbers ==
    UNION {BasePoints(c, status.axis_1, status.axis_2) :
           c \in DrawnCheckpoints(status)}
    \cup {l[2] : l \in trip.scene.labels}

PointOutside(p, ext) ==
    \/ ~IsFinite(ext[1])
    \/ QLt(p[1], ext[1]) \/ QLt(ext[2], p[1])
    \/ QLt(p[2], ext[3]) \/ QLt(ext[4], p[2])

\* C19: the extent draw_checkpoints leaves is the bounding box of the three
\* points of every checkpoint that is not hidden and of the positions of the
\* numbers that are not hidden, whatever the extended lines, the data path
\* and the crossings it plots.
C19_ExtentIsBoxOfLinesAndNumbers ==
    trip.phase = "drawn" =>
        /\ trip.scene.extent = BoundingBox(LinesAndNumbers)
        /\ \A l \in trip.scene.labels :
              /\ l[1] \notin status.hidden_checkpoints
              /\ l[1] \notin status.hidden_numbers

\* Checkpoint 1 of course A is hidden and extended, checkpoint 0 is extended
\* with its number hidden, and a path and a crossing are plotted: the extent
\* is the line of checkpoint 0, and plotted points lie outside it.
C19_Witness ==
    /\ trip.phase = "drawn"
    /\ status.course_code = "A"
    /\ status.hidden_checkpoints = {1}
    /\ status.hidden_numbers = {0}
    /\ status.extended_checkpoints = {0, 1}
    /\ status.data_path_points # None
    /\ status.crossing_data # None
    /\ trip.scene.extent = <<I(-50), I(50), I(0), I(0)>>
    /\ \E p \in trip.scene.plotted : PointOutside(p, trip.scene.extent)
    /\ <<I(2000), I(0)>> \in trip.scene.plotted
    /\ <<I(5000), I(0)>> \in trip.scene.plotted

\* The checkpoint of the status with the given number.
CheckpointOf(number) ==
    CHOOSE c \in DrawnCheckpoints(status) : c.checkpoint = number

\* (a - o) . (b - o) on the diagram's plane.
Dot(o, a, b) ==
    QAdd(QMul(QSub(a[1], o[1]), QSub(b[1], o[1])),
         QMul(QSub(a[2], o[2]), QSub(b[2], o[2])))

\* The distance on the plane from the centre of checkpoint c to the point l,
\* negative when l is on the side of the line's left end.
SignedPlaneDistance(c, l) ==
    IF QLt(Dot(PlanePoint(c, status.axis_1, status.axis_2, I(0)), l,
               PlanePoint(c, status.axis_1, status.axis_2,
                          QDiv(c.track_width, I(2)))), I(0))
    THEN QNeg(QSqrt(Dot(PlanePoint(c, status.axis_1, status.axis_2, I(0)), l, l)))
    ELSE QSqrt(Dot(PlanePoint(c, status.axis_1, status.axis_2, I(0)), l, l))

\* The line of checkpoint c has no length on the diagram's plane.
LineIsAPoint(c) ==
    PlanePoint(c, status.axis_1, status.axis_2, QDiv(c.track_width, I(2)))
        = PlanePoint(c, status.axis_1, status.axis_2, I(0))

Sign(q) == IF QLt(I(0), q) THEN I(1) ELSE IF QLt(q, I(0)) THEN I(-1) ELSE I(0)

\* C20 as stated: every number shown is at the distance
\* number_distance + sign(number_distance) * w/2 from its checkpoint's centre.
C20_LabelDistanceBySign ==
    trip.phase = "drawn" =>
        \A l \in trip.scene.labels :
            SignedPlaneDistance(CheckpointOf(l[1]), l[2])
              = QAdd(status.number_distance,
                     QMul(Sign(status.number_distance),
                          QDiv(CheckpointOf(l[1]).track_width, I(2))))

\* C20: every number shown is at the distance number_distance + w/2 from its
\* checkpoint's centre when number_distance > 0 and number_distance - w/2
\* otherwise (-w/2 at zero), when the checkpoint's line has length on the
\* diagram's plane; it is at the centre when the line has none.
C20_LabelDistance ==
    trip.phase = "drawn" =>
        \A l \in trip.scene.labels :
            SignedPlaneDistance(CheckpointOf(l[1]), l[2])
              = IF LineIsAPoint(CheckpointOf(l[1])) THEN I(0)
                ELSE IF QLt(I(0), status.number_distance)
                THEN QAdd(status.number_distance,
                          QDiv(CheckpointOf(l[1]).track_width, I(2)))
                ELSE QSub(status.number_distance,
                          QDiv(CheckpointOf(l[1]).track_width, I(2)))

\* With number distance 0 the number of checkpoint 0 of course A (width 100)
\* is at the left end of its line, 50 from the centre.
C20_Witness ==
    /\ trip.phase = "drawn"
    /\ status.course_code = "A"
    /\ status.number_distance = I(0)
    /\ <<0, <<I(-50), I(0)>>>> \in trip.scene.labels
    /\ <<1, <<I(0), I(250)>>>> \in trip.scene.labels

\* C21: a refresh leaves the figure with the dpi of the DPI field and with the
\* pixel size (inches * dpi, as the canvas reports it) that the refresh found,
\* whatever the dpi was before, and its window is fitted to a canvas of that
\* pixel size.
C21_PixelSizeKept ==
    trip.phase = "updated" =>
        /\ figure_dpi = status.dpi
        /\ previous_dpi = status.dpi
        /\ trip.fitted = trip.canvas
        /\ <<canvas_width, canvas_height>> = trip.canvas

\* C22: once a refresh has fitted the window to the canvas, the window's
\* horizontal range over its vertical range is the canvas's width over its
\* height after every sequence of drags, scrolls and zoom keys, the canvas
\* keeping its size.
C22_AspectKeptByPanAndZoom ==
    last_refresh_course # NoneStr =>
        HasAspect(xlim, ylim, <<canvas_width, canvas_height>>)

\* Three drags and zooms after the fit, a drag being under way, have left a
\* window that is neither where nor as wide as the fitted one.
C22_Witness ==
    /\ last_refresh_course = "A"
    /\ n_view_ops >= 3
    /\ drag_position # None
    /\ drag_position # <<320, 240>>
    /\ QSub(xlim[2], xlim[1])
         # QSub(SetupFigure(status, size_inches).xlim[2],
                SetupFigure(status, size_inches).xlim[1])
    /\ HasAspect(xlim, ylim, <<canvas_width, canvas_height>>)

\* C23: a pan drag and the drawing of a rectangle are never under way
\* together: drag_position is None whenever the select tool is drawing, so no
\* pointer move both pans the window and reshapes the rubber band.
C23_DragAndDrawExclusive ==
    ~(drag_position # None /\ rectangle_select_interaction = "drawing")

\* A rectangle is stored that was not there before the step.
Stores == IsRectangle(save_rectangle') /\ save_rectangle' # save_rectangle

C25_DrawnListIsOfSelectedCourse ==
    trip.phase = "updated" =>
        trip.drawn = <<"list", LoadedCheckpoints(status.course_code)>>
====
